---- MODULE Spec2Model ----
(***************************************************************************)
(* HTTP session lifecycle of the MCP hostname/IP server (src/src/server.ts, *)
(* startHttpServer): the `transports` record, the POST/GET/DELETE handlers  *)
(* of /mcp, the transport's onsessioninitialized / onclose callbacks and    *)
(* the SIGINT handler.  Each handler is an async function: the code between *)
(* two awaits runs atomically on the event loop, and every await is a point *)
(* where other handlers may run.  Each action below is one such atomic run. *)
(*                                                                         *)
(* The CallTool request handler of createServer (get_hostname,             *)
(* get_ip_address, unknown names) is a function of the call and of what    *)
(* the os module reports.  ToolSpec runs it alone on every machine within  *)
(* the bounds; Spec runs it inside the POST handler of a session.          *)
(***************************************************************************)
EXTENDS Integers, Sequences, FiniteSets, Bags, TLC

\* ---------------------------------------------------------------- bounds
\* Number of StreamableHTTPServerTransport objects the model lets the
\* initialization branch construct.
MaxTransports == 2
\* Number of requests that can be in flight (suspended on an await) at once.
MaxInFlight == 2
\* Number of network interfaces os.networkInterfaces() reports at most.
MaxInterfaces == 2
\* Number of addresses one interface has at most.
MaxAddrs == 2

\* ---------------------------------------------------------------- values
\* JavaScript `undefined`: an absent mcp-session-id header, an absent
\* property of `transports`, transport.sessionId before initialization.
Undefined == 0
\* A header value that names a property `transports` inherits from
\* Object.prototype ("constructor", "toString", "__proto__", ...):
\* `transports` is created as the object literal {}.
InheritedKey == -1
\* The value found under an inherited property name: truthy, and not a
\* transport (it has no handleRequest method).
ProtoValue == -1
\* Status recorded for a request whose handler promise rejected: the error
\* left the handler and no response was written by it.
Escaped == -1

TransportIds == 1..MaxTransports
\* randomUUID values are represented by 1, 2, ... in order of generation.
Uuids == 1..MaxTransports
\* Values of the mcp-session-id header: absent, an inherited property name,
\* or an identifier (issued already, not issued yet, or of a closed session).
HeaderValues == {Undefined, InheritedKey} \cup Uuids
Bodies == {"initialize", "tools/call"}
\* What transport.handleRequest / transport.close / server.connect can do:
\* complete, answer with an error response of the engine's own, throw before
\* any response is written, or throw after the response has been written.
EngineOutcomes == {"ok", "reject", "throw", "throwSent"}
\* What `await transport.close()` can do in the SIGINT loop: resolve, reject
\* before the close signal (onclose) was delivered, or reject after it.
CloseOutcomes == {"ok", "throw", "throwLate"}
\* The status of an error response the engine writes by itself.
EngineError == 406

VARIABLES
  transports,   \* the record `transports`: own properties, session id -> transport
  objs,         \* the transport objects constructed so far: [sessionId, closed]
  uuidCount,    \* how many identifiers randomUUID has produced
  reqs,         \* the suspended request handlers: a bag of their locals and positions
  last,         \* what the current turn of the event loop answered or signalled
  sd,           \* the SIGINT handler: position, keys left to visit, bookkeeping
  registered,   \* identifiers that have ever been assigned as a key of `transports`
  tool          \* the CallTool request handler: its inputs, position and result

httpVars == <<transports, objs, uuidCount, reqs, last, sd, registered>>
vars == <<transports, objs, uuidCount, reqs, last, sd, registered, tool>>

\* ------------------------------------------- the CallTool request handler
\* Lines 59-138.  The handler is a function of request.params.name, of
\* request.params.arguments and of what the os module reports.
\*
\* One entry of an interface's address list: the fields the handler reads
\* besides `address`.  The address string itself is represented by the
\* position <<"addr", i, j>> of the entry (interface i, entry j).
AddrInfos == [family : {"IPv4", "IPv6"}, internal : BOOLEAN]

\* All sequences over S of length at most n.
SeqsUpTo(S, n) == UNION {[1..k -> S] : k \in 0..n}

\* interfaces[interfaceName]: an address list, or undefined (the type of
\* os.networkInterfaces() allows it, and line 82 tests for it).
InterfaceValues ==
  {[defined |-> FALSE, addresses |-> <<>>]} \cup
  {[defined |-> TRUE, addresses |-> a] : a \in SeqsUpTo(AddrInfos, MaxAddrs)}

\* What os.networkInterfaces() can return, its properties in for-in order.
Enumerations == SeqsUpTo(InterfaceValues, MaxInterfaces)

\* request.params.name: the two tools, and names that are none of them.
ToolNames == {"get_hostname", "get_ip_address", "GET_HOSTNAME"}
\* request.params.arguments: absent, or with properties.
ToolArgs == {"undefined", "{x:1}"}

\* `let ipAddress = null`, line 78.
Null == <<>>
\* What os.hostname() returns.
Hostname == <<"host-1">>
\* The message of the error an os call throws when the system call fails.
OsMessage == <<"A system error occurred">>
NoAddressMessage == <<"No external IPv4 address found">>

\* `return {content: [{type: "text", text: JSON.stringify({key: value})}],
\* isError}`: the handler completed with a result.
Return(key, value, isError) ==
  [thrown |-> FALSE, isError |-> isError, key |-> key, value |-> value]
\* `throw new Error(message)`: the code did not complete.
Throw(message) ==
  [thrown |-> TRUE, isError |-> FALSE, key |-> "none", value |-> message]
\* The handler before it has answered.
NoResult == [thrown |-> FALSE, isError |-> FALSE, key |-> "none", value |-> Null]

\* Variant: the family of the address is not looked at.
Qualifies_anyFamily(addr) == ~addr.internal

\* Line 85: addr.family === "IPv4" && !addr.internal
Qualifies(addr) == addr.family = "IPv4" /\ ~addr.internal

\* Lines 84-89, the inner loop from entry j on: the first qualifying entry
\* of the list assigns ipAddress and breaks.
RECURSIVE ScanAddresses(_, _, _)
ScanAddresses(addresses, i, j) ==
  IF j > Len(addresses) THEN Null
  ELSE IF Qualifies(addresses[j]) THEN <<"addr", i, j>>
  ELSE ScanAddresses(addresses, i, j + 1)

\* Lines 80-92, the outer loop from interface i on: an undefined list is
\* skipped (line 82), and the loop breaks once ipAddress is set (line 90).
RECURSIVE ScanInterfaces(_, _)
ScanInterfaces(interfaces, i) ==
  IF i > Len(interfaces) THEN Null
  ELSE LET addresses == interfaces[i]
           ipAddress == IF addresses.defined
                        THEN ScanAddresses(addresses.addresses, i, 1)
                        ELSE Null
       IN IF ipAddress # Null THEN ipAddress
          ELSE ScanInterfaces(interfaces, i + 1)

\* Lines 62-75, case "get_hostname".
get_hostname(osOk) ==
  IF osOk THEN Return("hostname", Hostname, FALSE) ELSE Throw(OsMessage)

\* Lines 76-120, case "get_ip_address".
get_ip_address(interfaces, osOk) ==
  IF ~osOk THEN Throw(OsMessage)
  ELSE LET ipAddress == ScanInterfaces(interfaces, 1)
       IN IF ipAddress = Null
          THEN Return("error", NoAddressMessage, TRUE)
          ELSE Return("ipAddress", ipAddress, FALSE)

\* Lines 122-123, default: throw new Error(`Unknown tool: ${name}`)
UnknownTool(name) == Throw(<<"Unknown tool: ", name>>)

\* Lines 62-124, the switch inside the try block.  args is not read.
ToolSwitch(name, args, interfaces, osOk) ==
  CASE name = "get_hostname" -> get_hostname(osOk)
    [] name = "get_ip_address" -> get_ip_address(interfaces, osOk)
    [] OTHER -> UnknownTool(name)

\* Variant: the error is thrown on.
ToolCatch_rethrow(outcome) == outcome

\* Lines 125-137, the catch block: an error becomes an error result that
\* carries the error's message.
ToolCatch(outcome) ==
  IF outcome.thrown THEN Return("error", outcome.value, TRUE) ELSE outcome

\* Lines 59-138, the whole handler.
CallTool(name, args, interfaces, osOk) ==
  ToolCatch(ToolSwitch(name, args, interfaces, osOk))

\* The handler waiting for a request on a machine whose interfaces are
\* `interfaces`.
IdleTool(interfaces) ==
  [pc |-> "idle", interfaces |-> interfaces, name |-> "none", args |-> "none",
   osOk |-> TRUE, result |-> NoResult]

\* The machines the HTTP model lets a tool call run on: one without
\* interfaces, one with a single external IPv4 address.
SampleEnumerations ==
  {<<>>, <<[defined |-> TRUE,
            addresses |-> <<[family |-> "IPv4", internal |-> FALSE]>>]>>}

\* ------------------------------------------------------- the HTTP server
\* A request as it arrives.  method, sid and body are the request; transport
\* is the handler's local `transport` (lines 166, 232, 244); pc is the await
\* the handler is suspended on.
\* known records whether sid was a key (an own property) of `transports`
\* when the request arrived.
NewReq(method, sid, body) ==
  [pc |-> "start", method |-> method, sid |-> sid, body |-> body,
   transport |-> Undefined, known |-> sid \in DOMAIN transports]

One(q) == SetToBag({q})
\* A request can be accepted: the model keeps at most MaxInFlight handlers
\* suspended at once.
CanArrive == BagCardinality(reqs) < MaxInFlight
InFlight == BagToSet(reqs)

\* Nothing answered in this turn.  status is the response's HTTP status;
\* result is the tool result the response carries, NoResult if none;
\* handledBy is the transport whose handleRequest was given the request,
\* Undefined if the request was given to none; before is `transports` as it
\* was when the turn began.
NoResponse == [method |-> "none", sid |-> Undefined, body |-> "none",
               known |-> FALSE, handledBy |-> Undefined, status |-> 0,
               before |-> <<>>, result |-> NoResult]

\* The response record of request q, answered with status by transport t.
Response(q, t, status) ==
  [method |-> q.method, sid |-> q.sid, body |-> q.body, known |-> q.known,
   handledBy |-> t, status |-> status, before |-> transports,
   result |-> NoResult]

\* The record of a close signal that transport t, holding session sid,
\* delivered by itself in this turn.
CloseSignal(t, sid) ==
  [method |-> "onclose", sid |-> sid, body |-> "none", known |-> TRUE,
   handledBy |-> t, status |-> 0, before |-> transports, result |-> NoResult]

\* ------------------------------------------------------------- helpers
\* Property read `transports[key]`: own property, else the prototype chain.
Lookup(map, key) ==
  IF key \in DOMAIN map THEN map[key]
  ELSE IF key = InheritedKey THEN ProtoValue
  ELSE Undefined

Truthy(v) == v # Undefined

\* Variant: the delete is lost.
Delete_keep(map, key) == map

\* `delete transports[key]`: removes an own property, nothing else.
Delete(map, key) == [k \in (DOMAIN map) \ {key} |-> map[k]]

\* `transports[key] = t`
Assign(map, key, t) == [k \in (DOMAIN map) \cup {key} |-> IF k = key THEN t ELSE map[k]]

isInitializeRequest(body) == body = "initialize"

\* Variant: the generator returns the value it returned last.
randomUUID_repeat == IF uuidCount = 0 THEN 1 ELSE uuidCount

\* Line 174, sessionIdGenerator: () => randomUUID().  A version 4 UUID is
\* taken to be a value that was not generated before.
randomUUID == uuidCount + 1

\* Keys of the record in for-in order: string keys in insertion order, which
\* for identifiers generated 1, 2, ... is increasing order.
RECURSIVE KeysInOrder(_)
KeysInOrder(S) ==
  IF S = {} THEN <<>>
  ELSE LET m == CHOOSE x \in S : \A y \in S : x <= y
       IN <<m>> \o KeysInOrder(S \ {m})

\* The process has not exited, and the previous turn of the event loop is
\* over (its response, if it wrote one, has been taken off `last`).
Running == sd.pc # "exited" /\ last = NoResponse

\* new StreamableHTTPServerTransport(...), lines 173-179: no session
\* identifier yet, not closed.
NewTransport == [sessionId |-> Undefined, closed |-> FALSE]

\* Variant: the callback logs and registers nothing.
onsessioninitialized_skip(map, sid, t) == map

\* Variant: the callback stores the first transport ever constructed.
onsessioninitialized_shared(map, sid, t) == Assign(map, sid, 1)

\* Lines 175-178, the onsessioninitialized callback.
onsessioninitialized(map, sid, t) == Assign(map, sid, t)

\* Variant: the callback leaves the entry in place.
onclose_keep(map, sid) == map

\* Variant: the callback drops every entry.
onclose_clearAll(map, sid) == <<>>

\* Lines 182-188, the onclose callback of the transport whose
\* transport.sessionId is sid.
onclose(map, sid) ==
  IF Truthy(sid) /\ Truthy(Lookup(map, sid)) THEN Delete(map, sid) ELSE map

\* transport.close() that delivers the close signal: the transport is
\* closed and its onclose callback runs.
CloseObjs(ob, t) == [ob EXCEPT ![t].closed = TRUE]

\* The SIGINT handler before the signal.  pending: the keys for-in has yet
\* to visit; cur: the key whose close() is awaited; resolved: whether that
\* close() resolved; snapshot: the keys of `transports` when the signal
\* arrived; failed: the keys whose close() rejected.
IdleSd == [pc |-> "idle", pending |-> <<>>, cur |-> Undefined, resolved |-> FALSE,
           snapshot |-> {}, failed |-> {}]

HttpInit ==
  /\ transports = <<>>
  /\ objs = <<>>
  /\ uuidCount = 0
  /\ reqs = EmptyBag
  /\ last = NoResponse
  /\ sd = IdleSd
  /\ registered = {}

\* ------------------------------------- the CallTool handler on its own
\* The handler runs for a request: one synchronous run, lines 59-138.
CallToolRequest(name, args, osOk) ==
  /\ tool.pc = "idle"
  /\ tool' = [tool EXCEPT !.pc = "done", !.name = name, !.args = args,
                          !.osOk = osOk,
                          !.result = CallTool(name, args, tool.interfaces, osOk)]
  /\ UNCHANGED httpVars

\* The result has been sent; the handler waits for the next request.
CallToolDone ==
  /\ tool.pc = "done"
  /\ tool' = IdleTool(tool.interfaces)
  /\ UNCHANGED httpVars

\* The tool handler alone, on every machine within the bounds.
ToolInit ==
  /\ HttpInit
  /\ tool \in {IdleTool(e) : e \in Enumerations}

ToolNext ==
  \/ \E name \in ToolNames, args \in ToolArgs, osOk \in BOOLEAN :
       CallToolRequest(name, args, osOk)
  \/ CallToolDone

ToolSpec == ToolInit /\ [][ToolNext]_vars

\* The HTTP server; the tool handler is not followed.
Init ==
  /\ HttpInit
  /\ tool = IdleTool(<<>>)

\* ------------------------------------------------------ POST /mcp
\* Variant: the initialization branch does not look at the body.
PostBranch_anyBody(sid, body, map) ==
  IF Truthy(sid) /\ Truthy(Lookup(map, sid)) THEN "reuse"
  ELSE IF ~Truthy(sid) THEN "init"
  ELSE "invalid"

\* Variant: the body is looked at first.
PostBranch_initFirst(sid, body, map) ==
  IF isInitializeRequest(body) THEN "init"
  ELSE IF Truthy(sid) /\ Truthy(Lookup(map, sid)) THEN "reuse"
  ELSE "invalid"

\* Lines 168-206: which branch of the handler a request takes.
PostBranch(sid, body, map) ==
  IF Truthy(sid) /\ Truthy(Lookup(map, sid)) THEN "reuse"
  ELSE IF ~Truthy(sid) /\ isInitializeRequest(body) THEN "init"
  ELSE "invalid"

\* Lines 210-221 and 246-251: the status after the catch block of the POST
\* and DELETE handlers, given the status already written (0 if none, i.e.
\* res.headersSent is false).
CatchStatus(sent) == IF sent = 0 THEN 500 ELSE sent

\* The GET handler has no try/catch: an error rejects the handler's promise.
EscapeStatus(sent) == IF sent = 0 THEN Escaped ELSE sent

\* The status after an error in the handler of a request of the given
\* method: POST and DELETE catch it, GET lets it escape.
OnError(method, sent) ==
  IF method = "GET" THEN EscapeStatus(sent) ELSE CatchStatus(sent)

\* The status a request of the given method ends with when handleRequest was
\* called on its transport with outcome o.
AnswerStatus(o, method) ==
  CASE o = "ok" -> 200
    [] o = "reject" -> EngineError
    [] o = "throw" -> OnError(method, 0)
    [] OTHER -> OnError(method, 200)

\* The status an initializing POST ends with when its transport did not
\* accept it: the transport wrote an error response, threw, or did both.
RefusalStatus(o) ==
  CASE o = "reject" -> EngineError
    [] o = "throw" -> CatchStatus(0)
    [] OTHER -> CatchStatus(EngineError)

\* The suspended handler q resumes and its request is answered: the handler
\* returns.
Answered(q, t, status) ==
  /\ last' = Response(q, t, status)
  /\ reqs' = reqs (-) One(q)

\* The suspended handler q resumes and suspends again at pc.
Suspend(q, pc) ==
  /\ reqs' = (reqs (-) One(q)) (+) One([q EXCEPT !.pc = pc])
  /\ UNCHANGED last

\* A handler started for request me suspends on handleRequest of transport t.
Forward(me, t, pc) ==
  /\ reqs' = reqs (+) One([me EXCEPT !.transport = t, !.pc = pc])
  /\ UNCHANGED last

\* The handler from its start to its first await (or to its return).
PostArrive(sid, body) ==
  /\ Running
  /\ CanArrive
  /\ LET branch == PostBranch(sid, body, transports)
         me == NewReq("POST", sid, body)
     IN CASE branch = "reuse" ->
               LET t == Lookup(transports, sid) IN
               /\ IF t = ProtoValue
                  THEN \* transport.handleRequest is not a function: caught at 210
                       /\ last' = Response(me, Undefined, CatchStatus(0))
                       /\ UNCHANGED reqs
                  ELSE Forward(me, t, "handle")
               /\ UNCHANGED objs
          [] branch = "init" ->
               /\ Len(objs) < MaxTransports
               /\ objs' = Append(objs, NewTransport)
               /\ Forward(me, Len(objs) + 1, "connect")
          [] OTHER ->
               /\ last' = Response(me, Undefined, 400)
               /\ UNCHANGED <<reqs, objs>>
  /\ UNCHANGED <<transports, uuidCount, sd, registered, tool>>

\* Line 192, `await server.connect(transport)`, resumes or throws.
PostConnect(q, o) ==
  /\ Running
  /\ q.pc = "connect"
  /\ IF o = "ok" THEN Suspend(q, "handshake")
     ELSE Answered(q, Undefined, CatchStatus(0))
  /\ UNCHANGED <<transports, objs, uuidCount, sd, registered, tool>>

\* Variant: the transport calls the callback whatever becomes of the request.
CallbackFires_always(o) == TRUE

\* Lines 175-178: the transport calls onsessioninitialized when it has
\* accepted the initialization request and taken its identifier, not when
\* it refused the request or threw.
CallbackFires(o) == o = "ok"

\* Line 193, first half of transport.handleRequest for the initializing
\* POST.  "ok": the transport generates its identifier (line 174) and calls
\* onsessioninitialized (lines 175-178), which registers it.  Otherwise the
\* transport refuses the request or throws, before the callback.
PostHandshake(q, o) ==
  /\ Running
  /\ q.pc = "handshake"
  /\ LET t == q.transport
         sid == randomUUID
     IN /\ transports' = IF CallbackFires(o)
                         THEN onsessioninitialized(transports, sid, t)
                         ELSE transports
        /\ registered' = registered \cup (DOMAIN transports' \ DOMAIN transports)
        /\ IF o = "ok"
           THEN /\ uuidCount' = uuidCount + 1
                /\ objs' = [objs EXCEPT ![t].sessionId = sid]
                /\ Suspend(q, "dispatch")
           ELSE /\ Answered(q, t, RefusalStatus(o))
                /\ UNCHANGED <<objs, uuidCount>>
  /\ UNCHANGED <<sd, tool>>

\* The results a request with this body can be answered with when
\* handleRequest had outcome o: for a tool call that the transport handled,
\* whatever the CallTool handler returns for some name, arguments and machine.
ToolResults(body, o) ==
  IF body = "tools/call" /\ o = "ok"
  THEN {CallTool(name, args, e, osOk) :
          name \in ToolNames, args \in ToolArgs, e \in SampleEnumerations,
          osOk \in BOOLEAN}
  ELSE {NoResult}

\* Variant: an error result closes the session.
AfterCall_dropOnError(map, sid, result) ==
  IF result.isError THEN onclose(map, sid) ELSE map

\* The mapping after a tool call on session sid returned result: the
\* handler returns its result, also from the catch block (125-137), and
\* neither it nor the POST handler (208-209) closes a transport or writes to
\* `transports`.
AfterCall(map, sid, result) == map

\* Line 193, second half: the transport hands the initializing message to
\* the connected Server, which answers it; then `return` (line 194).
PostDispatch(q, o) ==
  /\ Running
  /\ q.pc = "dispatch"
  /\ Answered(q, q.transport, AnswerStatus(o, q.method))
  /\ UNCHANGED <<transports, objs, uuidCount, sd, registered, tool>>

\* Line 209: `await transport.handleRequest(req, res, req.body)` on the
\* transport found under the request's session identifier.
\* "ok" for a tools/call body: the transport passed the call to the Server,
\* whose CallTool handler (lines 59-138) ran, and wrote what it returned.
PostHandle(q, o) ==
  /\ Running
  /\ q.pc = "handle"
  /\ q.method = "POST"
  /\ \E r \in ToolResults(q.body, o) :
       /\ reqs' = reqs (-) One(q)
       /\ last' = [Response(q, q.transport, AnswerStatus(o, q.method))
                     EXCEPT !.result = r]
       /\ transports' = AfterCall(transports, q.sid, r)
  /\ UNCHANGED <<objs, uuidCount, sd, registered, tool>>

\* ------------------------------------------------------ GET /mcp
\* Lines 228 and 239: the guard shared by the GET and DELETE handlers,
\* `!sessionId || !transports[sessionId]`.
InvalidSession(sid, map) == ~Truthy(sid) \/ ~Truthy(Lookup(map, sid))

\* Lines 227-233 and 238-245: a GET or DELETE handler from its start to the
\* await of handleRequest (or to its return).
Arrive(method, sid) ==
  /\ Running
  /\ CanArrive
  /\ LET me == NewReq(method, sid, "none")
         t == Lookup(transports, sid)
     IN IF InvalidSession(sid, transports)
        THEN /\ last' = Response(me, Undefined, 400)
             /\ UNCHANGED reqs
        ELSE IF t = ProtoValue
        THEN \* transport.handleRequest is not a function
             /\ last' = Response(me, Undefined, OnError(method, 0))
             /\ UNCHANGED reqs
        ELSE Forward(me, t, "handle")
  /\ UNCHANGED <<transports, objs, uuidCount, sd, registered, tool>>

GetArrive(sid) == Arrive("GET", sid)

\* Line 233: `await transport.handleRequest(req, res)`.
GetHandle(q, o) ==
  /\ Running
  /\ q.pc = "handle"
  /\ q.method = "GET"
  /\ Answered(q, q.transport, AnswerStatus(o, q.method))
  /\ UNCHANGED <<transports, objs, uuidCount, sd, registered, tool>>

\* ------------------------------------------------------ DELETE /mcp
DeleteArrive(sid) == Arrive("DELETE", sid)

\* Line 245: the transport handles the DELETE.  "ok" and "throwSent": it
\* closes itself, which delivers the close signal (onclose, lines 182-188),
\* and answers 200.  "reject": it answers with an error of its own and stays
\* open.  "throw": it throws before closing.
DeleteHandle(q, o) ==
  /\ Running
  /\ q.pc = "handle"
  /\ q.method = "DELETE"
  /\ LET t == q.transport
         closes == o \in {"ok", "throwSent"}
     IN /\ Answered(q, t, AnswerStatus(o, q.method))
        /\ objs' = IF closes THEN CloseObjs(objs, t) ELSE objs
        /\ transports' = IF closes THEN onclose(transports, objs[t].sessionId)
                         ELSE transports
  /\ UNCHANGED <<uuidCount, sd, registered, tool>>

\* The turn of the event loop that answered a request or delivered a close
\* signal ends.
TurnEnd ==
  /\ last # NoResponse
  /\ last' = NoResponse
  /\ UNCHANGED <<transports, objs, uuidCount, reqs, sd, registered, tool>>

\* ------------------------------------------------------ engine close
\* A transport that holds a session closes without a DELETE (its channel is
\* gone): the close signal runs onclose, lines 182-188.
EngineClose(t) ==
  /\ Running
  /\ t \in 1..Len(objs)
  /\ Truthy(objs[t].sessionId)
  /\ ~objs[t].closed
  /\ objs' = CloseObjs(objs, t)
  /\ transports' = onclose(transports, objs[t].sessionId)
  /\ last' = CloseSignal(t, objs[t].sessionId)
  /\ UNCHANGED <<uuidCount, reqs, sd, registered, tool>>

\* ------------------------------------------------------ SIGINT
\* Variant: a failed close ends the loop.
AfterCatch_abort(pending) == <<>>

\* Lines 270-272: the catch block logs and the loop goes on with the keys
\* that are left.
AfterCatch(pending) == pending

\* Line 269, reached only when the awaited close() resolved.
AfterClose(map, key, resolved) ==
  IF resolved THEN Delete(map, key) ELSE map

\* One atomic run of the handler's loop (lines 266-274) from the head of an
\* iteration: for-in does not visit keys deleted before their turn; with no
\* key left the process exits (line 274); otherwise close() is called on the
\* next key's transport and the handler is suspended on the await.
LoopRun(map, failed, pending, snapshot) ==
  LET live == SelectSeq(pending, LAMBDA k : k \in DOMAIN map) IN
  IF live = <<>>
  THEN \* process.exit(0): the suspended handlers are gone with the process
       /\ transports' = map
       /\ objs' = objs
       /\ reqs' = EmptyBag
       /\ sd' = [pc |-> "exited", pending |-> <<>>, cur |-> Undefined,
                 resolved |-> FALSE, snapshot |-> snapshot, failed |-> failed]
  ELSE \E o \in CloseOutcomes :
       LET k == Head(live)
           t == map[k]
       IN /\ objs' = IF o = "throw" THEN objs ELSE CloseObjs(objs, t)
          /\ transports' = IF o = "throw" THEN map
                           ELSE onclose(map, objs[t].sessionId)
          /\ sd' = [pc |-> "awaiting", pending |-> Tail(live), cur |-> k,
                    resolved |-> (o = "ok"), snapshot |-> snapshot,
                    failed |-> failed]
          /\ UNCHANGED reqs

\* Line 264: the signal arrives; the loop starts over the keys of
\* `transports` and runs to its first await.
SigInt ==
  /\ Running
  /\ sd.pc = "idle"
  /\ LoopRun(transports, {}, KeysInOrder(DOMAIN transports), DOMAIN transports)
  /\ UNCHANGED <<uuidCount, last, registered, tool>>

\* The await of line 268 resumes: line 269 or the catch block, then the
\* next iteration.
ShutdownResume ==
  /\ Running
  /\ sd.pc = "awaiting"
  /\ LET ok == sd.resolved IN
     LoopRun(AfterClose(transports, sd.cur, sd.resolved),
             IF ok THEN sd.failed ELSE sd.failed \cup {sd.cur},
             IF ok THEN sd.pending ELSE AfterCatch(sd.pending),
             sd.snapshot)
  /\ UNCHANGED <<uuidCount, last, registered, tool>>

\* ------------------------------------------------------ specification
Next ==
  \/ \E sid \in HeaderValues, body \in Bodies : PostArrive(sid, body)
  \/ \E q \in InFlight, o \in {"ok", "throw"} : PostConnect(q, o)
  \/ \E q \in InFlight, o \in EngineOutcomes : PostHandshake(q, o)
  \/ \E q \in InFlight, o \in EngineOutcomes : PostDispatch(q, o)
  \/ \E q \in InFlight, o \in EngineOutcomes : PostHandle(q, o)
  \/ \E sid \in HeaderValues : GetArrive(sid)
  \/ \E q \in InFlight, o \in EngineOutcomes : GetHandle(q, o)
  \/ \E sid \in HeaderValues : DeleteArrive(sid)
  \/ \E q \in InFlight, o \in EngineOutcomes : DeleteHandle(q, o)
  \/ TurnEnd
  \/ \E t \in TransportIds : EngineClose(t)
  \/ SigInt
  \/ ShutdownResume

Spec == Init /\ [][Next]_vars

TypeOK ==
  /\ tool.pc \in {"idle", "done"}
  /\ tool.interfaces \in Enumerations
  /\ tool.result.thrown \in BOOLEAN
  /\ DOMAIN transports \subseteq Uuids
  /\ \A k \in DOMAIN transports : transports[k] \in 1..Len(objs)
  /\ Len(objs) <= MaxTransports
  /\ uuidCount \in 0..MaxTransports
  /\ BagCardinality(reqs) <= MaxInFlight
  /\ \A q \in InFlight : q.pc \in {"connect", "handshake", "dispatch", "handle"}
  /\ sd.pc \in {"idle", "awaiting", "exited"}

\* ------------------------------------------------------ properties
\* The transport object that holds session identifier s.
TransportOf(s) == CHOOSE t \in 1..Len(objs) : objs[t].sessionId = s

\* The identifiers of the sessions whose transport has closed.
ClosedSids == {objs[t].sessionId : t \in {u \in 1..Len(objs) : objs[u].closed}}

\* The turn answered a request of the given method.
AnsweredNow(method) == last.method = method

\* C1: when the shutdown loop has finished and the process has exited, and
\* at least one close() rejected, none of the sessions that were registered
\* when SIGINT arrived is still a key of the mapping.
C1_ShutdownRemovesAll ==
  (sd.pc = "exited" /\ sd.failed # {}) => sd.snapshot \cap DOMAIN transports = {}

\* C2 as stated: every POST without a session identifier whose body is an
\* initialization request has, when it is answered, created a session: it
\* was handled by a transport whose identifier was registered.
C2_InitAlwaysCreates ==
  (AnsweredNow("POST") /\ last.sid = Undefined /\ isInitializeRequest(last.body))
    => (Truthy(last.handledBy) /\ objs[last.handledBy].sessionId \in registered)

InitReq(q) == q.method = "POST" /\ q.sid = Undefined
Resumed(q) == CopiesIn(q, reqs') < CopiesIn(q, reqs) /\ sd'.pc # "exited"
Started(q) == CopiesIn(q, reqs') > CopiesIn(q, reqs)

\* C2, amended: a POST without a session identifier whose body is an
\* initialization request adds an entry to the mapping only in the step in
\* which its transport confirms the handshake; that step adds exactly one
\* entry, under an identifier that never was a key, bound to the request's
\* own transport, and the request is handed to the engine only afterwards,
\* with its session registered.  Every other step of the request (start,
\* connect, refused handshake, dispatch) leaves the mapping as it was.
C2_InitCreatesOneSession ==
  [][ /\ \A q \in BagToSet(reqs') :
           (InitReq(q) /\ Started(q) /\ q.pc = "connect")
             => (transports' = transports /\ objs'[q.transport].sessionId = Undefined)
      /\ \A q \in InFlight :
           (InitReq(q) /\ Resumed(q)) =>
             LET t == q.transport IN
             IF q.pc = "handshake" /\ Truthy(objs'[t].sessionId)
             THEN \E k \in Uuids :
                    /\ k \notin registered
                    /\ k \notin DOMAIN transports
                    /\ objs'[t].sessionId = k
                    /\ transports' = Assign(transports, k, t)
                    /\ last' = NoResponse
                    /\ CopiesIn([q EXCEPT !.pc = "dispatch"], reqs') > 0
             ELSE /\ transports' = transports
                  /\ q.pc = "dispatch" =>
                       (objs[t].sessionId \in registered /\ last'.handledBy = t)
    ]_vars

\* C2 witness: an initializing POST has been answered by its engine and its
\* session is registered under its transport's identifier.
C2_Witness ==
  /\ AnsweredNow("POST") /\ last.sid = Undefined /\ last.status = 200
  /\ Truthy(last.handledBy)
  /\ LET k == objs[last.handledBy].sessionId IN
       k \in DOMAIN transports /\ transports[k] = last.handledBy

\* C3: a POST without a session identifier whose body is not an
\* initialization request is answered 400, is handed to no transport, and
\* leaves the mapping exactly as it was.
C3_NoSidNonInitRejected ==
  (AnsweredNow("POST") /\ last.sid = Undefined /\ ~isInitializeRequest(last.body))
    => (last.status = 400 /\ last.handledBy = Undefined /\ transports = last.before)

\* C3 witness: such a POST was rejected while sessions were registered.
C3_Witness ==
  /\ AnsweredNow("POST") /\ last.sid = Undefined /\ last.body = "tools/call"
  /\ last.status = 400
  /\ DOMAIN transports # {}

\* C4: a POST whose session identifier was not a key of the mapping when it
\* arrived is answered 400 whatever its body, is handed to no transport, and
\* leaves the mapping exactly as it was.
C4_UnknownSidRejected ==
  (AnsweredNow("POST") /\ Truthy(last.sid) /\ ~last.known)
    => (last.status = 400 /\ last.handledBy = Undefined /\ transports = last.before)

\* C5: a DELETE whose session identifier is missing, was never registered or
\* belongs to a closed session (it was not a key when the DELETE arrived) is
\* answered 400, never with a success.
C5_TerminateNotIdempotent ==
  (AnsweredNow("DELETE") /\ ~last.known) => last.status = 400

\* C6: a closed session is never a key of the mapping again, and every POST,
\* GET or DELETE that arrives carrying its identifier is answered 400 and is
\* handed to no transport.
C6_ClosedNeverResolvable ==
  /\ ClosedSids \cap DOMAIN transports = {}
  /\ (last.method \in {"POST", "GET", "DELETE"} /\ ~last.known
        /\ last.sid \in ClosedSids)
       => (last.status = 400 /\ last.handledBy = Undefined)

\* C6 witness: a request carrying the identifier of a closed session has
\* been rejected, with no shutdown under way.
C6_Witness ==
  /\ last.method \in {"POST", "GET", "DELETE"}
  /\ last.sid \in ClosedSids
  /\ ~last.known
  /\ last.status = 400
  /\ sd.pc = "idle"

\* C7: when a transport has delivered its close signal by itself, its
\* session's entry is gone from the mapping and nothing else of the mapping
\* has changed.
C7_EngineCloseRemovesEntry ==
  AnsweredNow("onclose") =>
    (last.sid \notin DOMAIN transports /\ transports = Delete(last.before, last.sid))

\* C7 witness: a registered session's transport closed by itself.
C7_Witness ==
  /\ AnsweredNow("onclose")
  /\ last.sid \in DOMAIN last.before
  /\ objs[last.handledBy].closed

\* C8: when the process has exited, close() has been attempted on the
\* transport of every session that was registered when SIGINT arrived: the
\* attempt rejected, or the transport is closed.
C8_EveryCloseAttempted ==
  sd.pc = "exited" =>
    \A s \in sd.snapshot : s \in sd.failed \/ objs[TransportOf(s)].closed

\* C8 witness: the process exited after the close of the first session
\* failed and a later session was still closed.
C8_Witness ==
  /\ sd.pc = "exited"
  /\ \E s1, s2 \in sd.snapshot :
       /\ s1 < s2
       /\ s1 \in sd.failed /\ ~objs[TransportOf(s1)].closed
       /\ s2 \notin sd.failed /\ objs[TransportOf(s2)].closed

\* C9: a GET is handed to a transport only when its session identifier was
\* a key of the mapping when it arrived, and then to the transport under that
\* key; otherwise it is answered 400, is handed to no transport and leaves
\* the mapping as it was.
C9_ResumeNeedsSession ==
  /\ \A q \in InFlight : q.method = "GET" =>
       (q.known /\ objs[q.transport].sessionId = q.sid)
  /\ AnsweredNow("GET") =>
       IF last.known
       THEN Truthy(last.handledBy) /\ objs[last.handledBy].sessionId = last.sid
       ELSE last.status = 400 /\ last.handledBy = Undefined
            /\ transports = last.before

\* C10: the step in which a DELETE for session S is answered leaves every
\* other session as it was: its entry, its transport and the transport's
\* state are the same, no entry is added, and the requests in flight on
\* other transports stay in flight on the same transport.
C10_TerminateAffectsOnlyTarget ==
  [][ (last' # NoResponse /\ last'.method = "DELETE") =>
        LET S == last'.sid IN
        /\ DOMAIN transports' \subseteq DOMAIN transports
        /\ \A k \in DOMAIN transports \ {S} :
             k \in DOMAIN transports' /\ transports'[k] = transports[k]
        /\ Len(objs') = Len(objs)
        /\ \A t \in 1..Len(objs) : objs[t].sessionId # S => objs'[t] = objs[t]
        /\ \A q \in InFlight :
             (Truthy(q.transport) /\ objs[q.transport].sessionId # S)
               => CopiesIn(q, reqs') = CopiesIn(q, reqs)
    ]_vars

\* C10 witness: a DELETE closed its session while another session stayed
\* registered with a request in flight on its transport.
C10_Witness ==
  /\ AnsweredNow("DELETE") /\ last.status = 200
  /\ last.sid \notin DOMAIN transports
  /\ \E q \in InFlight :
       /\ q.pc = "handle"
       /\ q.transport # last.handledBy
       /\ q.sid \in DOMAIN transports /\ transports[q.sid] = q.transport

\* ------------------------------------------------- the tool handler alone
\* The positions <<i, j>> of the address entries of an enumeration.
Positions(interfaces) ==
  {p \in (1..Len(interfaces)) \X (1..MaxAddrs + 1) :
     /\ interfaces[p[1]].defined
     /\ p[2] <= Len(interfaces[p[1]].addresses)}

\* The entries that are IPv4 and not internal.
ExternalIPv4(interfaces) ==
  {p \in Positions(interfaces) :
     LET a == interfaces[p[1]].addresses[p[2]]
     IN a.family = "IPv4" /\ a.internal = FALSE}

\* p comes before q in interface-then-address order, or is q.
Before(p, q) == p[1] < q[1] \/ (p[1] = q[1] /\ p[2] <= q[2])

\* The handler has answered a call of the tool `name`.
ToolAnswered(name) == tool.pc = "done" /\ tool.name = name

\* C11: whenever os.networkInterfaces() returns an enumeration,
\* get_ip_address answers with the success result {ipAddress} of the first
\* entry, in interface-then-address order, that is IPv4 and not internal; if
\* no entry qualifies it answers with the error result
\* {error: "No external IPv4 address found"}, isError set; and whatever the
\* os call does, the handler returns a result and does not throw.
C11_FirstExternalIPv4 ==
  ToolAnswered("get_ip_address") =>
    /\ ~tool.result.thrown
    /\ tool.osOk =>
         LET ext == ExternalIPv4(tool.interfaces)
         IN IF ext = {}
            THEN tool.result = Return("error", NoAddressMessage, TRUE)
            ELSE \E p \in ext :
                   /\ \A q \in ext : Before(p, q)
                   /\ tool.result = Return("ipAddress", <<"addr", p[1], p[2]>>, FALSE)

\* C11 witness: the answer is the first entry of the second interface, after
\* a first interface whose entries are an internal IPv4 address and an
\* external IPv6 address.
C11_Witness ==
  /\ ToolAnswered("get_ip_address")
  /\ tool.osOk
  /\ tool.result.key = "ipAddress"
  /\ tool.result.value = <<"addr", 2, 1>>
  /\ tool.interfaces[1].addresses =
       <<[family |-> "IPv4", internal |-> TRUE], [family |-> "IPv6", internal |-> FALSE]>>
  /\ Len(tool.interfaces[2].addresses) = 2

\* C12: a call whose name is neither get_hostname nor get_ip_address is
\* answered, whatever its arguments and whatever the os module would do, with
\* the error result {error: "Unknown tool: <name>"} with isError set, which
\* carries the name of the call; the handler returns it and does not throw.
C12_UnknownToolIsErrorResult ==
  (tool.pc = "done" /\ tool.name \notin {"get_hostname", "get_ip_address"}) =>
    tool.result = Return("error", <<"Unknown tool: ", tool.name>>, TRUE)

\* C12 witness: a call of GET_HOSTNAME with arguments has been answered with
\* an error result.
C12_Witness ==
  /\ ToolAnswered("GET_HOSTNAME")
  /\ tool.args = "{x:1}"
  /\ tool.result.isError
  /\ tool.interfaces # <<>>

\* -------------------------------------------------- the HTTP server, again
\* The transports that have been given the identifier s.
Holders(s) == {t \in 1..Len(objs) : objs[t].sessionId = s}

\* C13: no identifier is held by two transports; every key of the mapping is
\* the sessionId of the transport stored under it; and a step that adds a
\* key, or binds a key to another transport, does so for an identifier that
\* never was a key before.
C13_IdentifiersNeverReused ==
  [][ /\ \A k \in registered' : Cardinality(Holders(k)') = 1
      /\ \A k \in DOMAIN transports' : objs'[transports'[k]].sessionId = k
      /\ \A k \in DOMAIN transports' :
           (k \notin DOMAIN transports \/ transports'[k] # transports[k])
             => k \notin registered ]_vars

\* C13 witness: the first identifier has been removed from the mapping, and
\* a second session is registered under an identifier of its own.
C13_Witness ==
  /\ registered = {1, 2}
  /\ DOMAIN transports = {2}
  /\ objs[transports[2]].sessionId = 2

\* C14: the mapping is injective: two different keys are never bound to the
\* same transport object, and every key is bound to one transport object
\* that was constructed by the initialization branch.
C14_MappingInjective ==
  /\ \A k \in DOMAIN transports : transports[k] \in 1..Len(objs)
  /\ \A k1, k2 \in DOMAIN transports :
       transports[k1] = transports[k2] => k1 = k2

\* C14 witness: two sessions are registered at once.
C14_Witness ==
  /\ Cardinality(DOMAIN transports) = 2
  /\ Len(objs) = 2

\* C15: when the process exits, every session that was registered while the
\* SIGINT handler was suspended on a close() has been closed and removed: no
\* key that was added after the signal is left in the mapping.
C15_ShutdownCoversLateSessions ==
  sd.pc = "exited" => DOMAIN transports \subseteq sd.snapshot

\* C16: a request whose routing fails is answered by its handler: with 500
\* if nothing had been sent, with what had been sent otherwise.  No request
\* that named a session of the mapping, or no session at all, ends with the
\* failure leaving its handler and no response written.
C16_FailureAnswered ==
  (last.method \in {"POST", "GET", "DELETE"} /\ (last.known \/ last.sid = Undefined))
    => last.status # Escaped

\* C17: the step in which the handler of a POST starts, for a request whose
\* session identifier is a key of the mapping, hands the request to the
\* transport stored under that key (line 209), whatever the body is; the
\* step constructs no transport, generates no identifier and leaves the
\* mapping as it was.
C17_KnownSessionReused ==
  [][ \A q \in BagToSet(reqs') :
        (Started(q) /\ q.method = "POST" /\ q.sid \in DOMAIN transports)
          => /\ q.pc = "handle"
             /\ q.transport = transports[q.sid]
             /\ objs' = objs
             /\ uuidCount' = uuidCount
             /\ transports' = transports ]_vars

\* C17 witness: a POST with an initialization body, carrying the identifier
\* of a registered session, is suspended on handleRequest of that session's
\* transport, and no other transport exists.
C17_Witness ==
  \E q \in InFlight :
    /\ q.method = "POST"
    /\ q.body = "initialize"
    /\ q.sid \in DOMAIN transports
    /\ q.pc = "handle"
    /\ q.transport = transports[q.sid]
    /\ Len(objs) = 1

\* A tool call on a session that was registered when the call returned has
\* been answered in this turn.
ToolCallAnswered ==
  /\ last.method = "POST"
  /\ last.body = "tools/call"
  /\ last.result # NoResult
  /\ last.sid \in DOMAIN last.before

\* C18: when a tool call on a registered session S has been answered,
\* whether with a success result or an error result (no qualifying address,
\* failed os call, unknown tool), the handler returned and did not throw,
\* the mapping is what it was before the call returned, S is still bound to
\* the transport that handled the call, that transport is open, and a later
\* POST that carries S takes the reuse branch to it.
C18_ToolFailureKeepsSession ==
  ToolCallAnswered =>
    /\ ~last.result.thrown
    /\ transports = last.before
    /\ transports[last.sid] = last.handledBy
    /\ ~objs[last.handledBy].closed
    /\ \A body \in Bodies : PostBranch(last.sid, body, transports) = "reuse"

\* C18 witness: a call of an unknown tool on a registered session has been
\* answered with an error result, and the session is still registered.
C18_Witness ==
  /\ ToolCallAnswered
  /\ last.result.isError
  /\ last.result.value = <<"Unknown tool: ", "GET_HOSTNAME">>
  /\ last.sid \in DOMAIN transports

\* An initializing POST has been answered in this turn without its transport
\* having confirmed the handshake: connect threw (no transport was given the
\* request), or the transport refused the request or threw and has no
\* identifier.
InitFailedEarly ==
  /\ last.method = "POST"
  /\ last.sid = Undefined
  /\ isInitializeRequest(last.body)
  /\ (Truthy(last.handledBy) => ~Truthy(objs[last.handledBy].sessionId))

\* C19: every transport stored in the mapping has taken its identifier, i.e.
\* has confirmed the handshake; the transport of an initializing POST that
\* is still before that point (awaiting connect or the handshake) is found
\* under no header value; and when such a POST is answered without the
\* handshake having been confirmed, the mapping is what it was and holds no
\* entry for its transport.
C19_OnlyCallbackRegisters ==
  /\ \A k \in DOMAIN transports : Truthy(objs[transports[k]].sessionId)
  /\ \A q \in InFlight :
       q.pc \in {"connect", "handshake"} =>
         \A sid \in HeaderValues : Lookup(transports, sid) # q.transport
  /\ InitFailedEarly =>
       /\ transports = last.before
       /\ \A k \in DOMAIN transports : transports[k] # last.handledBy

\* C19 witness: a session is registered, and a second initializing POST has
\* been refused by its transport before the handshake: the mapping still
\* holds the first session only.
C19_Witness ==
  /\ InitFailedEarly
  /\ Truthy(last.handledBy)
  /\ Cardinality(DOMAIN transports) = 1
  /\ Len(objs) = 2

====
